---------------------------- MODULE Spec2Model ----------------------------
(***************************************************************************)
(* Kernels of the VOLK fork: volk_32f_index_min_16u (all five variants),   *)
(* volk_32fc_x2_s32f_square_dist_scalar_mult_32f (all five variants), the  *)
(* volk_32u_popcntpuppet_32u adapters, and the variant registry that the   *)
(* function names and LV_HAVE_ guards of these files define.               *)
(*                                                                         *)
(* A call is one action.  Buffers are sequences holding exactly the        *)
(* num_points elements the caller owns; a load from an index outside the   *)
(* buffer is recorded and yields an arbitrary value.  Floats are modelled  *)
(* by small integers (exact arithmetic) plus one NaN.                      *)
(***************************************************************************)
EXTENDS Integers, Sequences, FiniteSets, TLC

VARIABLES
    op,          \* which kernel this state's buffers belong to
    called,      \* "none" before the call, then the name of the variant that ran
    ncalls,      \* how many times that variant has been called on these arguments
    num_points,  \* the element count passed to the call
    source,      \* index_min: input floats
    imOut,       \* index_min: [target |-> target[0], reads |-> indices of source loaded]
    arg_src0,    \* square_dist: the complex input src0 (one or two points long)
    arg_points,  \* square_dist: the reference points
    arg_scalar,  \* square_dist: the scale factor
    sdOut,       \* square_dist: the memory of the call, [target, wlog, preads, sreads]
    layout,      \* square_dist: where the caller put points relative to target
    inVector,    \* popcntpuppet: input words
    ppOut,       \* popcntpuppet: [outVector, wlog, calls]
    detected,    \* dispatcher: the detected capability set
    declared,    \* dispatcher: the caller-declared alignment class
    survivors    \* dispatcher: names of the variants that pass the filter

imVars == <<source, imOut>>

sdVars == <<arg_src0, arg_points, arg_scalar, sdOut, layout>>

ppVars == <<inVector, ppOut>>

dispVars == <<detected, declared, survivors>>

vars == <<op, called, ncalls, num_points, imVars, sdVars, ppVars, dispVars>>

---------------------------------------------------------------------------
(* Bounds and constants *)

\* Scaled-down stand-in for the 16-bit output maximum (65535 in <limits.h>).
OutMax == 9

USHRT_MAX == OutMax

\* The value the documentation page gives for the cap.
DocCap == USHRT_MAX + 1

\* Largest element count tried for index_min: one past the clamp.
MaxPoints == USHRT_MAX + 1

\* IEEE NaN, encoded outside the numeric range.
NaN == -1

\* Width of unsigned int, scaled down (32 on the targets of the library).
UIntBits == 8

\* Largest element count tried for popcntpuppet.
MaxPopPoints == 3

\* Largest element count tried for square_dist: two 8-point blocks and one more.
MaxDistPoints == 17

\* Calls made in a row with the same arguments.
MaxCalls == 2

\* Buffers carry the full value set in their first ShortLen elements and
\* the values of TailFloats after that.
ShortLen == 6

\* Comparable float values offered as buffer content.
Floats == {0, 1, 2}

TailFloats == {0, 1}

\* Buffer content that includes NaN.
FloatsNaN == {NaN, 0, 1}

---------------------------------------------------------------------------
(* Float comparison and memory *)

\* Lt with a fault: less-than-or-equal.
LtOrEqual(a, b) == a # NaN /\ b # NaN /\ a <= b

\* C's `<`, _mm_cmplt_ps and _mm256_cmp_ps(.., _CMP_LT_OS): false on NaN.
Lt(a, b) == a # NaN /\ b # NaN /\ a < b

\* C's `==` on floats: false on NaN.
Eq(a, b) == a # NaN /\ b # NaN /\ a = b

\* buf[i] of a 0-based C buffer; g is what a load outside the buffer yields.
Load(buf, i, g) == IF i >= 0 /\ i < Len(buf) THEN buf[i + 1] ELSE g

Lanes(L) == 0 .. (L - 1)

\* _mm_set1_ps / _mm256_set1_ps
set1_ps(L, x) == [j \in Lanes(L) |-> x]

\* _mm_blendv_ps / _mm256_blendv_ps: lane of b where the mask is set, else a.
blendv_ps(a, b, mask) == [j \in DOMAIN a |-> IF mask[j] THEN b[j] ELSE a[j]]

\* _mm_and_ps with a comparison mask: the lane, or all-zero bits (+0.0).
and_ps(mask, a) == [j \in DOMAIN a |-> IF mask[j] THEN a[j] ELSE 0]

\* andnot_ps with a fault: the complement of the mask is lost.
andnot_ps_plain_and(mask, a) == [j \in DOMAIN a |-> IF mask[j] THEN a[j] ELSE 0]

\* _mm_andnot_ps with a comparison mask: (~mask) & a.
andnot_ps(mask, a) == [j \in DOMAIN a |-> IF mask[j] THEN 0 ELSE a[j]]

\* Bitwise or of two float bit patterns, one of which is all-zero bits in
\* every use (the two masks are complementary); equal patterns or to
\* themselves, anything else is a pattern that is neither operand.
BitOr(x, y) == IF x = 0 THEN y ELSE IF y = 0 THEN x ELSE IF x = y THEN x ELSE NaN

\* _mm_or_ps
or_ps(a, b) == [j \in DOMAIN a |-> BitOr(a[j], b[j])]

\* The lane update: blend (sse4_1, avx) or and/andnot/or (sse).
LaneSelect(useMask, old, new, cmp) ==
    IF useMask
    THEN or_ps(and_ps(cmp, new), andnot_ps(cmp, old))
    ELSE blendv_ps(old, new, cmp)

---------------------------------------------------------------------------
(* volk_32f_index_min_16u *)

\* ClampPoints with a fault: no clamp.
ClampPointsMissing(n) == n

\* num_points = (num_points > USHRT_MAX) ? USHRT_MAX : num_points
ClampPoints(n) == IF n > USHRT_MAX THEN USHRT_MAX ELSE n

\* (uint16_t) conversion of an in-range index
ToU16(x) == x % (USHRT_MAX + 1)

\* The vector loop: st = [minValues, minValuesIndex, currentIndexes, reads].
RECURSIVE VectorLoop(_, _, _, _, _, _, _)
VectorLoop(src, g, L, useMask, number, bound, st) ==
    IF number >= bound THEN st
    ELSE
      LET currentValues  == [j \in Lanes(L) |-> Load(src, number * L + j, g)]
          currentIndexes == [j \in Lanes(L) |-> st.currentIndexes[j] + L]
          compareResults == [j \in Lanes(L) |-> Lt(currentValues[j], st.minValues[j])]
      IN VectorLoop(src, g, L, useMask, number + 1, bound,
            [minValues      |-> LaneSelect(useMask, st.minValues, currentValues, compareResults),
             minValuesIndex |-> LaneSelect(useMask, st.minValuesIndex, currentIndexes, compareResults),
             currentIndexes |-> currentIndexes,
             reads          |-> st.reads \cup {number * L + j : j \in Lanes(L)}])

\* ReduceStep with a fault: the equal-value branch is missing.
ReduceStepNoTie(acc, v, ix) ==
    IF Lt(v, acc.min) THEN [min |-> v, index |-> ix] ELSE acc

\* One step of the horizontal reduction over the stored lane buffers:
\* strict less-than takes value and index, equality keeps the lower index.
ReduceStep(acc, v, ix) ==
    IF Lt(v, acc.min) THEN [min |-> v, index |-> ix]
    ELSE IF Eq(v, acc.min) /\ acc.index > ix THEN [min |-> acc.min, index |-> ix]
    ELSE acc

RECURSIVE HorizontalReduce(_, _, _, _, _)
HorizontalReduce(minValuesBuffer, minIndexesBuffer, L, number, acc) ==
    IF number >= L THEN acc
    ELSE HorizontalReduce(minValuesBuffer, minIndexesBuffer, L, number + 1,
             ReduceStep(acc, minValuesBuffer[number], minIndexesBuffer[number]))

\* The scalar loop `for (number = from; number < n; number++)` with strict <.
\* acc = [min, index, reads].
RECURSIVE ScalarLoop(_, _, _, _, _)
ScalarLoop(src, g, number, n, acc) ==
    IF number >= n THEN acc
    ELSE
      LET x == Load(src, number, g)
      IN ScalarLoop(src, g, number + 1, n,
            IF Lt(x, acc.min)
            THEN [min |-> x, index |-> number, reads |-> acc.reads \cup {number}]
            ELSE [min |-> acc.min, index |-> acc.index, reads |-> acc.reads \cup {number}])

\* The registers before the vector loop: every lane holds (source[0], 0),
\* currentIndexes holds -L .. -1.
VectorInit(L, min0) ==
    [minValues      |-> set1_ps(L, min0),
     minValuesIndex |-> set1_ps(L, 0),
     currentIndexes |-> [j \in Lanes(L) |-> j - L],
     reads          |-> {0}]

\* The body shared by a_sse (L = 4, mask), a_sse4_1 (L = 4, blend),
\* a_avx and u_avx (L = 8, blend).  Result: [target, reads].
index_min_simd(src, n, g, L, useMask) ==
    LET np    == ClampPoints(n)
        bound == np \div L
        min0  == Load(src, 0, g)
        st    == VectorLoop(src, g, L, useMask, 0, bound, VectorInit(L, min0))
        red   == HorizontalReduce(st.minValues, st.minValuesIndex, L, 0,
                    [min |-> min0, index |-> 0])
        fin   == ScalarLoop(src, g, bound * L, np,
                    [min |-> red.min, index |-> red.index, reads |-> st.reads])
    IN [target |-> ToU16(fin.index), reads |-> fin.reads]

volk_32f_index_min_16u_a_avx(src, n, g) == index_min_simd(src, n, g, 8, FALSE)

volk_32f_index_min_16u_u_avx(src, n, g) == index_min_simd(src, n, g, 8, FALSE)

volk_32f_index_min_16u_a_sse4_1(src, n, g) == index_min_simd(src, n, g, 4, FALSE)

volk_32f_index_min_16u_a_sse(src, n, g) == index_min_simd(src, n, g, 4, TRUE)

volk_32f_index_min_16u_generic(src, n, g) ==
    LET np  == ClampPoints(n)
        fin == ScalarLoop(src, g, 1, np,
                  [min |-> Load(src, 0, g), index |-> 0, reads |-> {0}])
    IN [target |-> ToU16(fin.index), reads |-> fin.reads]

IndexMinVariants == {"generic", "a_sse", "a_sse4_1", "a_avx", "u_avx"}

\* Floats per register of a vectorized variant: __m256 or __m128.
LaneWidth(v) == IF v \in {"a_avx", "u_avx"} THEN 8 ELSE 4

\* a_sse selects with and/andnot/or, the others with blendv.
UsesMask(v) == v = "a_sse"

IndexMinRun(v, src, n, g) ==
    CASE v = "generic"  -> volk_32f_index_min_16u_generic(src, n, g)
      [] v = "a_sse"    -> volk_32f_index_min_16u_a_sse(src, n, g)
      [] v = "a_sse4_1" -> volk_32f_index_min_16u_a_sse4_1(src, n, g)
      [] v = "a_avx"    -> volk_32f_index_min_16u_a_avx(src, n, g)
      [] v = "u_avx"    -> volk_32f_index_min_16u_u_avx(src, n, g)

---------------------------------------------------------------------------
(* volk_32fc_x2_s32f_square_dist_scalar_mult_32f *)

\* A complex float is <<re, im>>; a register is a function from lane to float.
\* Memory of a call: M = [target, wlog, preads], where target maps an index
\* to its content, wlog is the sequence of target indices stored to, in
\* order, preads is the set of indices of points that were loaded and
\* sreads the set of indices of src0 that were loaded.

\* unsigned int arithmetic: num_points * 8 taken modulo the word size.
UIntMod == 2 ^ UIntBits

NumBytes(n) == (n * 8) % UIntMod

\* x >> k on a non-negative value
Shr(x, k) == x \div (2 ^ k)

\* float j of the buffer of complex numbers P, viewed as (float*)P
LoadFloat(P, j, g) == Load(P, j \div 2, g)[(j % 2) + 1]

\* _mm_load_ps / _mm256_load_ps / loadu at (float*)&P[k]: W floats from point k on.
load_ps(P, k, W, g) == [j \in Lanes(W) |-> LoadFloat(P, 2 * k + j, g)]

\* the points touched by a W-float load at point k
Touch(M, k, W) == [M EXCEPT !.preads = @ \cup (k .. (k + (W \div 2) - 1))]

sub_ps(a, b) == [j \in DOMAIN a |-> a[j] - b[j]]

mul_ps(a, b) == [j \in DOMAIN a |-> a[j] * b[j]]

\* _mm_hadd_ps(a, b) = (a0+a1, a2+a3, b0+b1, b2+b3)
hadd_ps(a, b) ==
    [j \in Lanes(4) |-> IF j < 2 THEN a[2 * j] + a[2 * j + 1]
                                 ELSE b[2 * (j - 2)] + b[2 * (j - 2) + 1]]

\* _mm256_hadd_ps: _mm_hadd_ps within each 128-bit half
hadd256_ps(a, b) ==
    [j \in Lanes(8) |->
        LET h == 4 * (j \div 4)
            k == j % 4
        IN IF k < 2 THEN a[h + 2 * k] + a[h + 2 * k + 1]
                    ELSE b[h + 2 * (k - 2)] + b[h + 2 * (k - 2) + 1]]

\* _mm256_set_epi32(e7, ..., e0): the last argument is lane 0
set_epi32(e) == [j \in Lanes(8) |-> e[8 - j]]

\* permutevar8x32_ps with a fault: the lanes are left as hadd produced them.
permutevar8x32_ps_skipped(a, idx) == a

\* _mm256_permutevar8x32_ps
permutevar8x32_ps(a, idx) == [j \in Lanes(8) |-> a[idx[j]]]

\* _mm256_extractf128_ps
extractf128_ps(a, imm) == [j \in Lanes(4) |-> a[j + 4 * imm]]

\* _mm256_insertf128_ps
insertf128_ps(a, b, imm) ==
    [j \in Lanes(8) |-> IF j \div 4 = imm THEN b[j % 4] ELSE a[j]]

\* permute_ps with a fault: the control byte is ignored, lanes stay put.
permute_ps_unshuffled(a, imm) == a

\* _mm_permute_ps(a, imm8): lane j takes a[(imm8 >> 2j) & 3]
permute_ps(a, imm) == [j \in Lanes(4) |-> a[Shr(imm, 2 * j) % 4]]

\* _mm256_blend_ps(a, b, imm8): lane j from b when bit j of imm8 is set
blend_ps(a, b, imm) ==
    [j \in Lanes(8) |-> IF Shr(imm, j) % 2 = 1 THEN b[j] ELSE a[j]]

\* _mm256_castps128_ps256: the upper half is undefined (u)
castps128_ps256(a, u) == [j \in Lanes(8) |-> IF j < 4 THEN a[j] ELSE u]

\* _mm_loadl_pi(a, p): the low two floats from memory, the high two from a
loadl_pi(a, c) == [j \in Lanes(4) |-> IF j < 2 THEN c[j + 1] ELSE a[j]]

\* _mm_movelh_ps(a, b) = (a0, a1, b0, b1)
movelh_ps(a, b) == [j \in Lanes(4) |-> IF j < 2 THEN a[j] ELSE b[j - 2]]

\* A store of cnt floats, lanes lo .. lo+cnt-1 of v, at target + base.
Store(M, base, v, lo, cnt) ==
    [M EXCEPT !.target = [i \in DOMAIN @ |->
                            IF i >= base /\ i < base + cnt THEN v[lo + i - base] ELSE @[i]],
              !.wlog = @ \o [i \in 1 .. cnt |-> base + i - 1]]

\* _mm_store_ps / _mm256_store_ps / storeu: the whole register
store_ps(M, base, v, W) == Store(M, base, v, 0, W)

\* _mm_storeh_pi: the upper two floats of the register
storeh_pi(M, base, v) == Store(M, base, v, 2, 2)

\* scalar * (re(diff)^2 + im(diff)^2) with diff = symbol - point
ScaledDistance(symbol, point, scalar) ==
    LET re == symbol[1] - point[1]
        im == symbol[2] - point[2]
    IN scalar * (re * re + im * im)

\* (The test on M.wlog is never true: it has M evaluated at every
\* iteration, so that a long loop does not pile up deferred stores.)
RECURSIVE calculate_scaled_distances(_, _, _, _, _, _, _, _, _)
calculate_scaled_distances(M, symbol, P, pOff, tOff, scalar, i, n, g) ==
    IF i >= n \/ Len(M.wlog) < 0 THEN M
    ELSE calculate_scaled_distances(
             Store(Touch(M, pOff + i, 2), tOff + i,
                   [j \in Lanes(1) |-> ScaledDistance(symbol, Load(P, pOff + i, g), scalar)],
                   0, 1),
             symbol, P, pOff, tOff, scalar, i + 1, n, g)

\* `*src0` / `src0[0]`: the first point of src0 is loaded
ReadSymbol(M) == [M EXCEPT !.sreads = @ \cup {0}]

volk_32fc_x2_s32f_square_dist_scalar_mult_32f_generic(M, src0, P, scalar, n, g) ==
    calculate_scaled_distances(ReadSymbol(M), src0[1], P, 0, 0, scalar, 0, n, g)

\* The main loop of a_avx2 / u_avx2.  r = [xmm2, xmm3, points, target, M]
RECURSIVE Avx2MainLoop(_, _, _, _, _, _, _)
Avx2MainLoop(P, g, xmm1, xmm8, i, bound, r) ==
    IF i >= bound THEN r
    ELSE
      LET idx    == set_epi32(<<7, 6, 3, 2, 5, 4, 1, 0>>)
          xmm4   == sub_ps(xmm1, r.xmm2)
          xmm5   == sub_ps(xmm1, r.xmm3)
          points == r.points + 8
          xmm6   == mul_ps(xmm4, xmm4)
          xmm7   == mul_ps(xmm5, xmm5)
          xmm2   == load_ps(P, points, 8, g)
          hadd   == hadd256_ps(xmm6, xmm7)
          perm   == permutevar8x32_ps(hadd, idx)
          xmm3   == load_ps(P, points + 4, 8, g)
          out    == mul_ps(perm, xmm8)
      IN Avx2MainLoop(P, g, xmm1, xmm8, i + 1, bound,
            [xmm2 |-> xmm2, xmm3 |-> xmm3, points |-> points,
             target |-> r.target + 8,
             M |-> store_ps(Touch(Touch(r.M, points, 8), points + 4, 8),
                            r.target, out, 8)])

\* The 4-point leftover stage of a_avx2 / u_avx2 (runs leftovers0 times).
\* r = [points, target, M]
Avx2Leftovers0(P, g, xmm1, xmm8, leftovers0, r) ==
    IF leftovers0 = 0 THEN r
    ELSE
      LET idx  == set_epi32(<<7, 6, 3, 2, 5, 4, 1, 0>>)
          xmm2 == load_ps(P, r.points, 8, g)
          xmm4 == sub_ps(xmm1, xmm2)
          xmm6 == mul_ps(xmm4, xmm4)
          hadd == hadd256_ps(xmm6, xmm6)
          perm == permutevar8x32_ps(hadd, idx)
          out  == mul_ps(perm, xmm8)
          xmm9 == extractf128_ps(out, 1)
      IN [points |-> r.points + 4, target |-> r.target + 4,
          M |-> store_ps(Touch(r.M, r.points, 8), r.target, xmm9, 4)]

\* The 2-point leftover stage of a_avx2 (runs leftovers1 times).
Avx2Leftovers1(P, g, xmm0, xmm11, leftovers1, r) ==
    IF leftovers1 = 0 THEN r
    ELSE
      LET xmm9  == load_ps(P, r.points, 4, g)
          xmm10 == sub_ps(xmm0, xmm9)
          sq    == mul_ps(xmm10, xmm10)
          hadd  == hadd_ps(sq, sq)
          out   == mul_ps(hadd, xmm11)
      IN [points |-> r.points + 2, target |-> r.target + 2,
          M |-> storeh_pi(Touch(r.M, r.points, 4), r.target, out)]

\* The loads and register set-up before the main loop of a_avx2 / u_avx2.
\* src0 is loaded as four floats: src0[0] and src0[1].
Avx2Prologue(M, src0, P, scalar, g) ==
    LET xmm8  == set1_ps(8, scalar)
        xmm0l == load_ps(src0, 0, 4, g)
        xmm0  == permute_ps(xmm0l, 68)
        xmm1a == insertf128_ps(set1_ps(8, 0), xmm0, 0)
        xmm1  == insertf128_ps(xmm1a, xmm0, 1)
    IN [xmm0 |-> xmm0, xmm1 |-> xmm1, xmm8 |-> xmm8,
        xmm11 |-> extractf128_ps(xmm8, 1),
        r |-> [xmm2 |-> load_ps(P, 0, 8, g), xmm3 |-> load_ps(P, 4, 8, g),
               points |-> 0, target |-> 0,
               M |-> [Touch(Touch(M, 0, 8), 4, 8) EXCEPT !.sreads = @ \cup {0, 1}]]]

volk_32fc_x2_s32f_square_dist_scalar_mult_32f_a_avx2(M, src0, P, scalar, n, g) ==
    LET num_bytes  == NumBytes(n)
        bound      == Shr(num_bytes, 6)
        leftovers0 == Shr(num_bytes, 5) % 2
        leftovers1 == Shr(num_bytes, 4) % 2
        leftovers2 == Shr(num_bytes, 3) % 2
        pro        == Avx2Prologue(M, src0, P, scalar, g)
        main       == Avx2MainLoop(P, g, pro.xmm1, pro.xmm8, 0, bound, pro.r)
        l0         == Avx2Leftovers0(P, g, pro.xmm1, pro.xmm8, leftovers0,
                         [points |-> main.points, target |-> main.target, M |-> main.M])
        l1         == Avx2Leftovers1(P, g, pro.xmm0, pro.xmm11, leftovers1, l0)
    IN calculate_scaled_distances(ReadSymbol(l1.M), src0[1], P, l1.points, l1.target,
                                  scalar, 0, leftovers2, g)

volk_32fc_x2_s32f_square_dist_scalar_mult_32f_u_avx2(M, src0, P, scalar, n, g) ==
    LET num_bytes  == NumBytes(n)
        bound      == Shr(num_bytes, 6)
        leftovers0 == Shr(num_bytes, 5) % 2
        leftovers1 == Shr(num_bytes, 3) % 4
        pro        == Avx2Prologue(M, src0, P, scalar, g)
        main       == Avx2MainLoop(P, g, pro.xmm1, pro.xmm8, 0, bound, pro.r)
        l0         == Avx2Leftovers0(P, g, pro.xmm1, pro.xmm8, leftovers0,
                         [points |-> main.points, target |-> main.target, M |-> main.M])
    IN calculate_scaled_distances(ReadSymbol(l0.M), src0[1], P, l0.points, l0.target,
                                  scalar, 0, leftovers1, g)

\* One 8-point block of a_avx: the hadd result is put back in index order
\* by two half-swaps and a blend.
AvxBlock(P, g, src0, scalar, points) ==
    LET src      == src0[1]
        source8  == [j \in Lanes(8) |-> src[(j % 2) + 1]]
        low      == load_ps(P, points, 8, g)
        high     == load_ps(P, points + 4, 8, g)
        dlow     == sub_ps(source8, low)
        dhigh    == sub_ps(source8, high)
        mags     == hadd256_ps(mul_ps(dlow, dlow), mul_ps(dhigh, dhigh))
        bottom   == extractf128_ps(mags, 0)
        top      == extractf128_ps(mags, 1)
        lower    == insertf128_ps(castps128_ps256(bottom, g[1]), permute_ps(bottom, 78), 1)
        upper1   == insertf128_ps(castps128_ps256(top, g[1]), top, 1)
        upper    == insertf128_ps(upper1, permute_ps(top, 78), 0)
        ordered  == blend_ps(lower, upper, 204)
    IN mul_ps(ordered, set1_ps(8, scalar))

\* `for (i = 0; i < avx_work_size; i += work_size)`; r = [points, target, M]
RECURSIVE AvxLoop(_, _, _, _, _, _, _)
AvxLoop(P, g, src0, scalar, i, avx_work_size, r) ==
    IF i >= avx_work_size THEN r
    ELSE AvxLoop(P, g, src0, scalar, i + 8, avx_work_size,
            [points |-> r.points + 8, target |-> r.target + 8,
             M |-> store_ps([Touch(Touch(r.M, r.points, 8), r.points + 4, 8)
                                EXCEPT !.sreads = @ \cup {0}],
                            r.target, AvxBlock(P, g, src0, scalar, r.points), 8)])

volk_32fc_x2_s32f_square_dist_scalar_mult_32f_a_avx(M, src0, P, scalar, n, g) ==
    LET work_size     == 8
        avx_work_size == (n \div work_size) * work_size
        r == AvxLoop(P, g, src0, scalar, 0, avx_work_size,
                     [points |-> 0, target |-> 0, M |-> M])
    IN calculate_scaled_distances(ReadSymbol(r.M), src0[1], P, r.points, r.target,
                                  scalar, 0, n - avx_work_size, g)

\* One 4-point block of a_sse3 from the registers already loaded.
Sse3Block(xmm1, xmm2, xmm3, xmm8) ==
    LET xmm4 == sub_ps(xmm1, xmm2)
        xmm5 == sub_ps(xmm1, xmm3)
    IN mul_ps(hadd_ps(mul_ps(xmm4, xmm4), mul_ps(xmm5, xmm5)), xmm8)

\* `for (i = 0; i < bound - 1; ++i)`; r = [xmm2, xmm3, points, target, M]
RECURSIVE Sse3MainLoop(_, _, _, _, _, _, _)
Sse3MainLoop(P, g, xmm1, xmm8, i, bound, r) ==
    IF i >= bound - 1 THEN r
    ELSE
      LET points == r.points + 4
      IN Sse3MainLoop(P, g, xmm1, xmm8, i + 1, bound,
            [xmm2 |-> load_ps(P, points, 4, g), xmm3 |-> load_ps(P, points + 2, 4, g),
             points |-> points, target |-> r.target + 4,
             M |-> store_ps(Touch(Touch(r.M, points, 4), points + 2, 4),
                            r.target, Sse3Block(xmm1, r.xmm2, r.xmm3, xmm8), 4)])

\* The 2-point leftover stage of a_sse3 (runs leftovers0 times).
Sse3Leftovers0(P, g, xmm1, xmm8, leftovers0, r) ==
    IF leftovers0 = 0 THEN r
    ELSE
      LET xmm2 == load_ps(P, r.points, 4, g)
          xmm4 == sub_ps(xmm1, xmm2)
          xmm6 == mul_ps(xmm4, xmm4)
          out  == mul_ps(hadd_ps(xmm6, xmm6), xmm8)
      IN [points |-> r.points + 2, target |-> r.target + 2,
          M |-> storeh_pi(Touch(r.M, r.points, 4), r.target, out)]

volk_32fc_x2_s32f_square_dist_scalar_mult_32f_a_sse3(M, src0, P, scalar, n, g) ==
    LET num_bytes  == NumBytes(n)
        bound      == Shr(num_bytes, 5)
        leftovers0 == Shr(num_bytes, 4) % 2
        leftovers1 == Shr(num_bytes, 3) % 2
        xmm1l      == loadl_pi(set1_ps(4, 0), src0[1])
        xmm8       == set1_ps(4, scalar)
        xmm1       == movelh_ps(xmm1l, xmm1l)
        main       == Sse3MainLoop(P, g, xmm1, xmm8, 0, bound,
                         [xmm2 |-> load_ps(P, 0, 4, g), xmm3 |-> load_ps(P, 2, 4, g),
                          points |-> 0, target |-> 0,
                          M |-> [Touch(Touch(M, 0, 4), 2, 4) EXCEPT !.sreads = @ \cup {0}]])
        \* the block after the loop, not guarded by any test
        blockM     == store_ps(main.M, main.target,
                               Sse3Block(xmm1, main.xmm2, main.xmm3, xmm8), 4)
        l0         == Sse3Leftovers0(P, g, xmm1, xmm8, leftovers0,
                         [points |-> main.points + 4, target |-> main.target + 4,
                          M |-> blockM])
    IN calculate_scaled_distances(ReadSymbol(l0.M), src0[1], P, l0.points, l0.target,
                                  scalar, 0, leftovers1, g)

SquareDistVariants == {"generic", "a_sse3", "a_avx", "a_avx2", "u_avx2"}

SquareDistRun(v, M, src0, P, scalar, n, g) ==
    CASE v = "generic" -> volk_32fc_x2_s32f_square_dist_scalar_mult_32f_generic(M, src0, P, scalar, n, g)
      [] v = "a_sse3"  -> volk_32fc_x2_s32f_square_dist_scalar_mult_32f_a_sse3(M, src0, P, scalar, n, g)
      [] v = "a_avx"   -> volk_32fc_x2_s32f_square_dist_scalar_mult_32f_a_avx(M, src0, P, scalar, n, g)
      [] v = "a_avx2"  -> volk_32fc_x2_s32f_square_dist_scalar_mult_32f_a_avx2(M, src0, P, scalar, n, g)
      [] v = "u_avx2"  -> volk_32fc_x2_s32f_square_dist_scalar_mult_32f_u_avx2(M, src0, P, scalar, n, g)

---------------------------------------------------------------------------
(* volk_32u_popcntpuppet_32u *)

\* Number of set bits: what the wrapped popcount kernels store through
\* their first argument.
RECURSIVE PopCount(_)
PopCount(x) == IF x = 0 THEN 0 ELSE (x % 2) + PopCount(x \div 2)

\* volk_32u_popcnt_<arch>(ret, value): *ret = popcount(value).  The call is
\* logged as <<arch, offset of ret from outVector, value>>.
volk_32u_popcnt(arch, O, ret, value) ==
    [outVector |-> [i \in DOMAIN O.outVector |->
                       IF i = ret THEN PopCount(value) ELSE O.outVector[i]],
     wlog      |-> Append(O.wlog, ret),
     calls     |-> Append(O.calls, <<arch, ret, value>>),
     ireads    |-> O.ireads]

\* `for (ii = 0; ii < num_points; ++ii) kernel(outVector + ii, *(inVector + ii))`
RECURSIVE PuppetLoop(_, _, _, _, _, _)
PuppetLoop(arch, O, inV, ii, n, g) ==
    IF ii >= n THEN O
    ELSE PuppetLoop(arch,
             volk_32u_popcnt(arch, [O EXCEPT !.ireads = @ \cup {ii}], ii, Load(inV, ii, g)),
             inV, ii + 1, n, g)

\* The e2k adapter with a fault: the kernel of another capability is called.
volk_32u_popcntpuppet_32u_e2k_other_kernel(O, inV, n, g) ==
    PuppetLoop("a_sse4_2", O, inV, 0, n, g)

volk_32u_popcntpuppet_32u_e2k(O, inV, n, g) == PuppetLoop("e2k", O, inV, 0, n, g)

volk_32u_popcntpuppet_32u_a_sse4_2(O, inV, n, g) == PuppetLoop("a_sse4_2", O, inV, 0, n, g)

PopcntPuppetRun(v, O, inV, n, g) ==
    CASE v = "e2k"      -> volk_32u_popcntpuppet_32u_e2k(O, inV, n, g)
      [] v = "a_sse4_2" -> volk_32u_popcntpuppet_32u_a_sse4_2(O, inV, n, g)

---------------------------------------------------------------------------
(* Variant registry and dispatcher filter *)

\* The alignment class a variant's name declares: a_ aligned, u_ unaligned,
\* no prefix (generic, e2k) accepts either.
AlignOf(name) ==
    IF SubSeq(name, 1, 2) = "a_" THEN "aligned"
    ELSE IF SubSeq(name, 1, 2) = "u_" THEN "unaligned"
    ELSE "any"

\* One descriptor per variant defined in the sources, with the capability
\* its LV_HAVE_ guard requires (none for LV_HAVE_GENERIC).
Variant(operation, name, cap) ==
    [operation |-> operation, name |-> name, cap |-> cap]

Registry ==
    {Variant("volk_32f_index_min_16u", "a_avx", {"avx"}),
     Variant("volk_32f_index_min_16u", "a_sse4_1", {"sse4_1"}),
     Variant("volk_32f_index_min_16u", "a_sse", {"sse"}),
     Variant("volk_32f_index_min_16u", "generic", {}),
     Variant("volk_32f_index_min_16u", "u_avx", {"avx"}),
     Variant("volk_32fc_x2_s32f_square_dist_scalar_mult_32f", "a_avx2", {"avx2"}),
     Variant("volk_32fc_x2_s32f_square_dist_scalar_mult_32f", "a_avx", {"avx"}),
     Variant("volk_32fc_x2_s32f_square_dist_scalar_mult_32f", "a_sse3", {"sse3"}),
     Variant("volk_32fc_x2_s32f_square_dist_scalar_mult_32f", "generic", {}),
     Variant("volk_32fc_x2_s32f_square_dist_scalar_mult_32f", "u_avx2", {"avx2"}),
     Variant("volk_32u_popcntpuppet_32u", "e2k", {"e2k"}),
     Variant("volk_32u_popcntpuppet_32u", "a_sse4_2", {"sse4_2"})}

Operations == {d.operation : d \in Registry}

Capabilities == UNION {d.cap : d \in Registry}

\* A caller that declares its buffers aligned may run any variant; one
\* that declares them unaligned may not run an aligned-only variant.
Compatible(variantClass, callerClass) ==
    callerClass = "aligned" \/ variantClass # "aligned"

\* The dispatcher's filter.
Survivors(operation, caps, callerClass) ==
    {d \in Registry : /\ d.operation = operation
                      /\ d.cap \subseteq caps
                      /\ Compatible(AlignOf(d.name), callerClass)}

---------------------------------------------------------------------------
(* State machine *)

Min(a, b) == IF a < b THEN a ELSE b

\* Content of a float that no call has stored to.
Stale == NaN

\* Buffers idle while another kernel is exercised.
IdleIndexMin == source = <<>> /\ imOut = [target |-> 0, reads |-> {}]

NoMemory == [target |-> <<>>, wlog |-> <<>>, preads |-> {}, sreads |-> {}]

IdleSquareDist ==
    /\ arg_src0 = <<>>
    /\ arg_points = <<>>
    /\ arg_scalar = 0
    /\ sdOut = NoMemory
    /\ layout = "apart"

NoOutput == [outVector |-> <<>>, wlog |-> <<>>, calls |-> <<>>, ireads |-> {}]

IdlePopcnt == inVector = <<>> /\ ppOut = NoOutput

IdleDispatch == detected = {} /\ declared = "any" /\ survivors = {}

(* index_min *)

\* The buffers of length k: S in the first ShortLen elements, TailFloats after.
BuffersOfLen(S, k) ==
    {a \o b : a \in [1 .. Min(k, ShortLen) -> S],
              b \in [1 .. (k - Min(k, ShortLen)) -> TailFloats]}

Buffers(S) == UNION {BuffersOfLen(S, k) : k \in 0 .. MaxPoints}

\* What a load outside the buffer may yield.  Only an empty buffer is ever
\* loaded from out of range (source[0] with num_points = 0).
OobValues(buf) == IF Len(buf) = 0 THEN Floats \cup {NaN} ELSE {0}

InitIndexMinOver(S) ==
    /\ op = "index_min"
    /\ called = "none"
    /\ ncalls = 0
    /\ source \in Buffers(S)
    /\ num_points = Len(source)
    /\ imOut = [target |-> 0, reads |-> {}]
    /\ IdleSquareDist /\ IdlePopcnt /\ IdleDispatch

InitIndexMin == InitIndexMinOver(Floats)

\* Buffers of comparable values and buffers that hold NaN.
InitIndexMinNaN == InitIndexMinOver(Floats) \/ InitIndexMinOver(FloatsNaN)

CallIndexMin(v) ==
    /\ op = "index_min"
    /\ called = "none"
    /\ \E g \in OobValues(source) :
         imOut' = IndexMinRun(v, source, num_points, g)
    /\ called' = v
    /\ ncalls' = 1
    /\ UNCHANGED <<op, num_points, source, sdVars, ppVars, dispVars>>

\* The variant that ran is called again with the same arguments.
RepeatIndexMin ==
    /\ op = "index_min"
    /\ called \in IndexMinVariants
    /\ ncalls < MaxCalls
    /\ \E g \in OobValues(source) :
         imOut' = IndexMinRun(called, source, num_points, g)
    /\ ncalls' = ncalls + 1
    /\ UNCHANGED <<op, called, num_points, source, sdVars, ppVars, dispVars>>

Call_index_min_generic == CallIndexMin("generic")

Call_index_min_a_sse == CallIndexMin("a_sse")

Call_index_min_a_sse4_1 == CallIndexMin("a_sse4_1")

Call_index_min_a_avx == CallIndexMin("a_avx")

Call_index_min_u_avx == CallIndexMin("u_avx")

NextIndexMin ==
    \/ Call_index_min_generic
    \/ Call_index_min_a_sse
    \/ Call_index_min_a_sse4_1
    \/ Call_index_min_a_avx
    \/ Call_index_min_u_avx

SpecIndexMin == InitIndexMin /\ [][NextIndexMin]_vars

SpecIndexMinNaN == InitIndexMinNaN /\ [][NextIndexMin]_vars

(* square_dist *)

\* Reference points: a ramp in the real part, a period-3 pattern in the
\* imaginary part.
PointsBuffer(k, a, b) == [i \in 1 .. k |-> <<(i - 1) + a, b * ((i - 1) % 3)>>]

Symbols == {<<0, 0>>, <<2, 1>>}

SecondPoints == {<<0, 0>>, <<5, 3>>}

Src0Buffers == {<<c>> : c \in Symbols} \cup {<<c, d>> : c \in Symbols, d \in SecondPoints}

Scalars == {1, 3}

\* What a load outside a complex buffer may yield.
OobPoints == {<<0, 0>>, <<7, 4>>}

\* Where the caller put the points buffer: "apart" from target, or
\* "adjacent", at the first 16-byte boundary past a target buffer of at
\* most four floats, that is at (float*)target + PointsAt.
PointsAt == 4

Layouts(n) == IF n <= PointsAt THEN {"apart", "adjacent"} ELSE {"apart"}

\* The points buffer after a call that left memory M: with the buffers
\* adjacent, a store to target[PointsAt + j] is a store to float j of
\* points.
PointsAfter(P, M, lay) ==
    IF lay = "apart" THEN P
    ELSE
      LET stored == {M.wlog[k] : k \in 1 .. Len(M.wlog)}
          F(j)   == IF (PointsAt + j) \in stored
                    THEN M.target[PointsAt + j]
                    ELSE P[(j \div 2) + 1][(j % 2) + 1]
      IN [i \in 1 .. Len(P) |-> <<F(2 * (i - 1)), F(2 * (i - 1) + 1)>>]

\* Memory before the call.  The target indices past num_points are not the
\* caller's; they are kept to record what a store outside the buffer hits.
FreshMemory ==
    [target |-> [i \in 0 .. (MaxDistPoints + 7) |-> Stale],
     wlog |-> <<>>, preads |-> {}, sreads |-> {}]

InitSquareDist ==
    /\ op = "square_dist"
    /\ called = "none"
    /\ ncalls = 0
    /\ num_points \in 0 .. MaxDistPoints
    /\ arg_src0 \in Src0Buffers
    /\ \E a \in {0, 3}, b \in {0, 1} : arg_points = PointsBuffer(num_points, a, b)
    /\ arg_scalar \in Scalars
    /\ sdOut = FreshMemory
    /\ layout = "apart"
    /\ IdleIndexMin /\ IdlePopcnt /\ IdleDispatch

CallSquareDist(v) ==
    /\ op = "square_dist"
    /\ called = "none"
    /\ \E g \in OobPoints :
         sdOut' = SquareDistRun(v, sdOut, arg_src0, arg_points, arg_scalar, num_points, g)
    /\ arg_points' = PointsAfter(arg_points, sdOut', layout)
    /\ called' = v
    /\ ncalls' = 1
    /\ UNCHANGED <<op, num_points, arg_src0, arg_scalar, layout, imVars, ppVars, dispVars>>

\* The variant that ran is called again with the same arguments, on the
\* memory the call before left.
RepeatSquareDist ==
    /\ op = "square_dist"
    /\ called \in SquareDistVariants
    /\ ncalls < MaxCalls
    /\ \E g \in OobPoints :
         sdOut' = SquareDistRun(called, [sdOut EXCEPT !.wlog = <<>>, !.preads = {}, !.sreads = {}],
                                arg_src0, arg_points, arg_scalar, num_points, g)
    /\ arg_points' = PointsAfter(arg_points, sdOut', layout)
    /\ ncalls' = ncalls + 1
    /\ UNCHANGED <<op, called, num_points, arg_src0, arg_scalar, layout, imVars, ppVars, dispVars>>

Call_square_dist_generic == CallSquareDist("generic")

Call_square_dist_a_sse3 == CallSquareDist("a_sse3")

Call_square_dist_a_avx == CallSquareDist("a_avx")

Call_square_dist_a_avx2 == CallSquareDist("a_avx2")

Call_square_dist_u_avx2 == CallSquareDist("u_avx2")

NextSquareDist ==
    \/ Call_square_dist_generic
    \/ Call_square_dist_a_sse3
    \/ Call_square_dist_a_avx
    \/ Call_square_dist_a_avx2
    \/ Call_square_dist_u_avx2

SpecSquareDist == InitSquareDist /\ [][NextSquareDist]_vars

\* The same calls with the points buffer apart from target or next to it.
InitSquareDistLayout ==
    /\ op = "square_dist"
    /\ called = "none"
    /\ ncalls = 0
    /\ num_points \in 0 .. MaxDistPoints
    /\ arg_src0 \in Src0Buffers
    /\ \E a \in {0, 3}, b \in {0, 1} : arg_points = PointsBuffer(num_points, a, b)
    /\ arg_scalar \in Scalars
    /\ sdOut = FreshMemory
    /\ layout \in Layouts(num_points)
    /\ IdleIndexMin /\ IdlePopcnt /\ IdleDispatch

\* Calls with every num_points an unsigned int can hold: one symbol, one
\* scalar, a points buffer of num_points elements.
InitSquareDistWord ==
    /\ op = "square_dist"
    /\ called = "none"
    /\ ncalls = 0
    /\ num_points \in 0 .. (UIntMod - 1)
    /\ arg_src0 = <<<<2, 1>>>>
    /\ arg_points = PointsBuffer(num_points, 0, 1)
    /\ arg_scalar = 1
    /\ sdOut = FreshMemory
    /\ layout = "apart"
    /\ IdleIndexMin /\ IdlePopcnt /\ IdleDispatch

SpecSquareDistWord == InitSquareDistWord /\ [][NextSquareDist]_vars

(* popcntpuppet *)

Words == {0, 1, 6, 255}

FreshOutput ==
    [outVector |-> [i \in 0 .. MaxPopPoints |-> Stale],
     wlog |-> <<>>, calls |-> <<>>, ireads |-> {}]

InitPopcnt ==
    /\ op = "popcntpuppet"
    /\ called = "none"
    /\ ncalls = 0
    /\ inVector \in UNION {[1 .. k -> Words] : k \in 0 .. MaxPopPoints}
    /\ num_points = Len(inVector)
    /\ ppOut = FreshOutput
    /\ IdleIndexMin /\ IdleSquareDist /\ IdleDispatch

CallPopcntPuppet(v) ==
    /\ op = "popcntpuppet"
    /\ called = "none"
    /\ \E g \in {0} :
         ppOut' = PopcntPuppetRun(v, ppOut, inVector, num_points, g)
    /\ called' = v
    /\ ncalls' = 1
    /\ UNCHANGED <<op, num_points, inVector, imVars, sdVars, dispVars>>

\* The adapter that ran is called again with the same arguments, on the
\* output buffer the call before left.
RepeatPopcntPuppet ==
    /\ op = "popcntpuppet"
    /\ called \in {"e2k", "a_sse4_2"}
    /\ ncalls < MaxCalls
    /\ \E g \in {0} :
         ppOut' = PopcntPuppetRun(called, [ppOut EXCEPT !.wlog = <<>>, !.calls = <<>>, !.ireads = {}],
                                  inVector, num_points, g)
    /\ ncalls' = ncalls + 1
    /\ UNCHANGED <<op, called, num_points, inVector, imVars, sdVars, dispVars>>

Call_popcntpuppet_e2k == CallPopcntPuppet("e2k")

Call_popcntpuppet_a_sse4_2 == CallPopcntPuppet("a_sse4_2")

NextPopcnt ==
    \/ Call_popcntpuppet_e2k
    \/ Call_popcntpuppet_a_sse4_2

SpecPopcnt == InitPopcnt /\ [][NextPopcnt]_vars

(* dispatcher *)

InitDispatch ==
    /\ op \in Operations
    /\ called = "none"
    /\ ncalls = 0
    /\ num_points = 0
    /\ detected \in SUBSET Capabilities
    /\ declared \in {"aligned", "unaligned"}
    /\ survivors = {}
    /\ IdleIndexMin /\ IdleSquareDist /\ IdlePopcnt

\* The filter step of the selection algorithm.
Resolve ==
    /\ op \in Operations
    /\ called = "none"
    /\ survivors' = {d.name : d \in Survivors(op, detected, declared)}
    /\ called' = "resolved"
    /\ UNCHANGED <<op, ncalls, num_points, detected, declared, imVars, sdVars, ppVars>>

NextDispatch == Resolve

SpecDispatch == InitDispatch /\ [][NextDispatch]_vars

(* everything *)

Init == InitIndexMin \/ InitSquareDistLayout \/ InitPopcnt \/ InitDispatch

Next ==
    \/ Call_index_min_generic
    \/ Call_index_min_a_sse
    \/ Call_index_min_a_sse4_1
    \/ Call_index_min_a_avx
    \/ Call_index_min_u_avx
    \/ Call_square_dist_generic
    \/ Call_square_dist_a_sse3
    \/ Call_square_dist_a_avx
    \/ Call_square_dist_a_avx2
    \/ Call_square_dist_u_avx2
    \/ Call_popcntpuppet_e2k
    \/ Call_popcntpuppet_a_sse4_2
    \/ RepeatIndexMin
    \/ RepeatSquareDist
    \/ RepeatPopcntPuppet
    \/ Resolve

Spec == Init /\ [][Next]_vars

---------------------------------------------------------------------------
(* Properties: index_min *)

IndexMinCalled == op = "index_min" /\ called \in IndexMinVariants

\* The lowest index in 0 .. n-1 whose element equals the minimum of buf[0 .. n-1].
FirstMinIndex(buf, n) ==
    CHOOSE i \in 0 .. (n - 1) :
        /\ \A j \in 0 .. (n - 1) : buf[j + 1] >= buf[i + 1]
        /\ \A j \in 0 .. (i - 1) : buf[j + 1] > buf[i + 1]

\* C1: for every variant, every N >= 1 and every buffer of comparable
\* values, target[0] is the lowest index below min(N, USHRT_MAX) that holds
\* the minimum of the elements below min(N, USHRT_MAX).
C1_LowestIndexOfMinimum ==
    (IndexMinCalled /\ num_points >= 1)
        => imOut.target = FirstMinIndex(source, Min(num_points, USHRT_MAX))

\* A 4-lane variant ran on a buffer whose minimum sits at index 2 and again
\* at index 5: lane 1 (index 5) is met before lane 2 (index 2) in the
\* horizontal reduction, and a third copy sits in the scalar tail.
C1_Witness ==
    /\ IndexMinCalled /\ called = "a_sse"
    /\ num_points = USHRT_MAX
    /\ source[3] = 0 /\ source[6] = 0 /\ source[num_points] = 0
    /\ \A i \in {1, 2} : source[i] > 0
    /\ imOut.target = 2

\* C2: for every N >= 0 and every content (NaN included), each variant
\* writes to target[0] the integer the generic variant writes.
C2_VariantsAgreeWithGeneric ==
    IndexMinCalled
        => \A g \in OobValues(source) :
              imOut.target = volk_32f_index_min_16u_generic(source, num_points, g).target

\* The mask-based variant ran over two vector iterations on a buffer that
\* holds a NaN and found its minimum past index 0.
C2_Witness ==
    /\ IndexMinCalled /\ called = "a_sse"
    /\ num_points >= 8
    /\ \E i \in 2 .. num_points : source[i] = NaN
    /\ source[1] # NaN
    /\ imOut.target > 0

\* C3: num_points is clamped to USHRT_MAX before any loop: no element at or
\* past the clamp is loaded, the index reported is below the clamp, and
\* when N exceeds the clamp the result is the same for every content of
\* the elements at or past the clamp.
C3_ClampHidesElementsBeyond ==
    (IndexMinCalled /\ num_points >= 1)
        => /\ imOut.reads \subseteq 0 .. (Min(num_points, USHRT_MAX) - 1)
           /\ imOut.target < Min(num_points, USHRT_MAX)
           /\ num_points > USHRT_MAX
                => \A beyond \in [1 .. (num_points - USHRT_MAX) -> Floats] :
                      IndexMinRun(called, SubSeq(source, 1, USHRT_MAX) \o beyond,
                                  num_points, 0).target = imOut.target

\* An 8-lane variant ran with N past the clamp on a buffer whose only
\* minimum is the element past the clamp.
C3_Witness ==
    /\ IndexMinCalled /\ called = "a_avx"
    /\ num_points > USHRT_MAX
    /\ source[num_points] = 0
    /\ \A i \in 1 .. USHRT_MAX : source[i] > 0
    /\ imOut.target < USHRT_MAX

\* C8: as the documentation page has it, the cap is DocCap (65536), so for
\* every N up to DocCap the result is the index of the first minimum of
\* the whole vector.
C8_DocCapCoversWholeVector ==
    (IndexMinCalled /\ num_points >= 1 /\ num_points <= DocCap)
        => imOut.target = FirstMinIndex(source, num_points)

\* The registers of the vectorized variant called after k iterations of
\* its vector loop over source.
LanesAfter(k) ==
    VectorLoop(source, 0, LaneWidth(called), UsesMask(called), 0, k,
               VectorInit(LaneWidth(called), source[1]))

\* The accumulator of the horizontal reduction after the first p lanes of
\* the registers st.
ReducedAfter(st, p) ==
    HorizontalReduce(st.minValues, st.minValuesIndex, p, 0,
                     [min |-> source[1], index |-> 0])

\* The accumulator of the scalar cleanup loop, entered with red, when it
\* has reached index t.
CleanedUpTo(red, t) ==
    ScalarLoop(source, 0, (ClampPoints(num_points) \div LaneWidth(called)) * LaneWidth(called), t,
               [min |-> red.min, index |-> red.index, reads |-> {}])

\* The lowest index of the set I whose element is the minimum over I.
FirstMinOf(I) ==
    CHOOSE i \in I :
        /\ \A j \in I : source[j + 1] >= source[i + 1]
        /\ \A j \in I : j < i => source[j + 1] > source[i + 1]

\* C14: in a vectorized variant of lane width L, after k iterations of the
\* vector loop lane j holds (source[0], 0) when none of source[j + L*m],
\* m < k, is strictly less than source[0], and otherwise the minimum of
\* those elements with the lowest index j + L*m that attains it; each step
\* of the horizontal reduction takes value and index on strict less-than
\* and keeps the smaller index on equality; the scalar cleanup loop runs
\* over L*floor(N/L) .. N-1 (N after the clamp) and takes an element only
\* on strict less-than; what it ends with is what is stored to target[0].
C14_VectorLoopInvariant ==
    (IndexMinCalled /\ called # "generic" /\ num_points >= 1)
        => LET L     == LaneWidth(called)
               np    == ClampPoints(num_points)
               bound == np \div L
               full  == LanesAfter(bound)
               red   == ReducedAfter(full, L)
               fin   == CleanedUpTo(red, np)
           IN /\ \A k \in 0 .. bound :
                    LET st == LanesAfter(k)
                    IN \A j \in Lanes(L) :
                          LET seen == {j + L * m : m \in 0 .. (k - 1)}
                          IN IF \A i \in seen : ~(source[i + 1] < source[1])
                             THEN st.minValues[j] = source[1] /\ st.minValuesIndex[j] = 0
                             ELSE /\ st.minValuesIndex[j] = FirstMinOf(seen)
                                  /\ st.minValues[j] = source[FirstMinOf(seen) + 1]
              /\ \A p \in Lanes(L) :
                    LET acc == ReducedAfter(full, p)
                        v   == full.minValues[p]
                        ix  == full.minValuesIndex[p]
                    IN ReducedAfter(full, p + 1) =
                          IF v < acc.min THEN [min |-> v, index |-> ix]
                          ELSE IF v = acc.min THEN [min |-> acc.min, index |-> Min(acc.index, ix)]
                          ELSE acc
              /\ \A t \in (bound * L) .. (np - 1) :
                    LET acc  == CleanedUpTo(red, t)
                        next == CleanedUpTo(red, t + 1)
                    IN /\ next.min = (IF source[t + 1] < acc.min THEN source[t + 1] ELSE acc.min)
                       /\ next.index = (IF source[t + 1] < acc.min THEN t ELSE acc.index)
              /\ fin.reads = (bound * L) .. (np - 1)
              /\ imOut.target = fin.index

\* a_sse ran two vector iterations and a scalar tail: lane 1 was updated
\* in both iterations (1 at index 1, 0 at index 5), lane 2 holds the same
\* minimum from index 2 and wins the tie in the reduction, and the tail
\* holds the minimum once more without being taken.
C14_Witness ==
    /\ IndexMinCalled /\ called = "a_sse"
    /\ num_points = USHRT_MAX
    /\ source[1] = 2 /\ source[2] = 1 /\ source[3] = 0 /\ source[6] = 0
    /\ source[num_points] = 0
    /\ LanesAfter(2).minValuesIndex[1] = 5
    /\ ReducedAfter(LanesAfter(2), 2).index = 5
    /\ imOut.target = 2

---------------------------------------------------------------------------
(* Properties: square_dist *)

SquareDistCalled == op = "square_dist" /\ called \in SquareDistVariants

Owned == 0 .. (num_points - 1)

\* The stores that land inside the caller's buffer, in the order made.
OwnedStores == SelectSeq(sdOut.wlog, LAMBDA i : i < num_points)

\* C4: for every variant and every N >= 0, target[i] for i < N is
\* scalar * |src0[0] - points[i]|^2, the elements are stored in index
\* order, none skipped or stored twice, and a_avx2 and u_avx2 give the
\* same outputs.
C4_EveryVariantMatchesGeneric ==
    SquareDistCalled
        => /\ \A i \in Owned :
                 sdOut.target[i] = ScaledDistance(arg_src0[1], arg_points[i + 1], arg_scalar)
           /\ OwnedStores = [k \in 1 .. num_points |-> k - 1]
           /\ called = "a_avx2"
                => \A g \in OobPoints, i \in Owned :
                      sdOut.target[i] =
                         volk_32fc_x2_s32f_square_dist_scalar_mult_32f_u_avx2(
                            FreshMemory, arg_src0, arg_points, arg_scalar, num_points, g).target[i]

\* a_avx2 ran through its main loop and its 4-wide, 2-wide and scalar
\* leftover stages on points whose distances are pairwise different.
C4_Witness ==
    /\ SquareDistCalled /\ called = "a_avx2"
    /\ num_points = 15
    /\ \A i, j \in Owned : i # j => sdOut.target[i] # sdOut.target[j]

\* C5: every variant, for every N >= 0, stores to each target index below
\* N exactly once and to no index at or past N.
C5_WritesExactlyOwnedIndices ==
    SquareDistCalled
        => /\ \A k \in 1 .. Len(sdOut.wlog) : sdOut.wlog[k] < num_points
           /\ \A i \in Owned :
                 Cardinality({k \in 1 .. Len(sdOut.wlog) : sdOut.wlog[k] = i}) = 1

\* C6: no variant, for any N >= 0, loads an element of points at an index
\* at or past N.
C6_ReadsOnlyOwnedPoints ==
    SquareDistCalled => sdOut.preads \subseteq Owned

\* C11: only src0[0] is used.  For every variant and every N, a call that
\* differs from the one made only in what src0 holds at index 1 (another
\* value, or nothing at all) leaves the same target memory behind, and the
\* same target[i] for i < N whatever the loads outside the buffers yield.
C11_OnlyFirstSymbolUsed ==
    SquareDistCalled
        => \A other \in Src0Buffers :
              other[1] = arg_src0[1]
                 => /\ \E g \in OobPoints :
                          SquareDistRun(called, FreshMemory, other, arg_points,
                                        arg_scalar, num_points, g).target = sdOut.target
                    /\ \A g \in OobPoints, i \in Owned :
                          SquareDistRun(called, FreshMemory, other, arg_points,
                                        arg_scalar, num_points, g).target[i] = sdOut.target[i]

\* a_avx2 ran through every stage with a src0 whose second element differs
\* from the first, and its 128-bit load brought that second element in.
C11_Witness ==
    /\ SquareDistCalled /\ called = "a_avx2"
    /\ num_points = 15
    /\ Len(arg_src0) = 2 /\ arg_src0[2] # arg_src0[1]
    /\ 1 \in sdOut.sreads
    /\ \A i \in Owned : sdOut.target[i] # Stale

\* C13: for every num_points an unsigned int can hold, the elements a
\* variant processes (main loop, then leftover stages) number exactly
\* num_points, as they do in generic and a_avx.  The calls of a_sse3 with
\* num_points < 4, where the block after its loop adds four elements (C5),
\* are left aside.
C13_CountsAddUpToNumPoints ==
    (SquareDistCalled /\ (called = "a_sse3" => num_points >= 4))
        => Len(sdOut.wlog) = num_points

---------------------------------------------------------------------------
(* Properties: every kernel *)

\* C7: a call with num_points = 0 loads no element of source, points or
\* inVector and stores no output element, except that index_min stores 0
\* to target[0].  (The load of the single symbol src0[0] is not counted.)
C7_ZeroPointsTouchesNothing ==
    (called # "none" /\ num_points = 0)
        => /\ op = "index_min" => imOut.reads = {} /\ imOut.target = 0
           /\ op = "square_dist" => sdOut.preads = {} /\ sdOut.wlog = <<>>
           /\ op = "popcntpuppet" => ppOut.ireads = {} /\ ppOut.wlog = <<>>

\* C12: a call of any variant changes no element of source, src0, points
\* or inVector, and a second call of the same variant with the same
\* arguments leaves every element of the output buffer as the first call
\* left it.
C12_CallsArePure ==
    [][/\ source' = source
       /\ arg_src0' = arg_src0
       /\ arg_points' = arg_points
       /\ inVector' = inVector
       /\ (ncalls >= 1 /\ ncalls' = ncalls + 1)
             => /\ op = "index_min" => imOut'.target = imOut.target
                /\ op = "square_dist"
                      => \A i \in Owned : sdOut'.target[i] = sdOut.target[i]
                /\ op = "popcntpuppet"
                      => \A i \in 0 .. (num_points - 1) :
                            ppOut'.outVector[i] = ppOut.outVector[i]]_vars

---------------------------------------------------------------------------
(* Properties: popcntpuppet *)

PopcntCalled == op = "popcntpuppet" /\ called \in {"e2k", "a_sse4_2"}

\* C9: each adapter calls the popcount kernel of its own capability once
\* per index below N, in increasing order, with (outVector + i,
\* inVector[i]); afterwards outVector[i] is the popcount of inVector[i]
\* for i < N, nothing at or past N is stored to, and inVector is as it was.
C9_AfterCall ==
    PopcntCalled
        => /\ ppOut.calls = [k \in 1 .. num_points |-> <<called, k - 1, inVector[k]>>]
           /\ \A i \in 0 .. (num_points - 1) : ppOut.outVector[i] = PopCount(inVector[i + 1])
           /\ \A i \in num_points .. MaxPopPoints : ppOut.outVector[i] = Stale
           /\ ppOut.wlog = [k \in 1 .. num_points |-> k - 1]
           /\ ppOut.ireads \subseteq 0 .. (num_points - 1)

C9_PuppetDelegatesPerIndex == []C9_AfterCall /\ [][inVector' = inVector]_vars

\* The e2k adapter ran over a full buffer of different words.
C9_Witness ==
    /\ PopcntCalled /\ called = "e2k"
    /\ num_points = MaxPopPoints
    /\ inVector[1] = 255 /\ inVector[2] = 6 /\ inVector[3] = 1
    /\ ppOut.outVector[0] = 8 /\ ppOut.outVector[1] = 2 /\ ppOut.outVector[2] = 1

---------------------------------------------------------------------------
(* Properties: dispatcher *)

\* C10: for each operation of the registry, every detected capability set
\* and either declared alignment class, the filter leaves a survivor, the
\* operation having exactly one variant that requires no capability.
C10_GenericFallbackSurvives ==
    (op \in Operations /\ called = "resolved")
        => /\ survivors # {}
           /\ Cardinality({d \in Registry : d.operation = op /\ d.cap = {}}) = 1

=============================================================================
